---- MODULE Spec2Model ----
(***************************************************************************)
(* The claim / lease protocol of the legislature video pipeline.           *)
(*                                                                         *)
(* The shared table legislature_videos is the only coordination medium.    *)
(* Transcriber workers (transcriber.py main) pull pending videos through   *)
(* LegislatureDB.claim_pending, summarizer workers (scripts/summarizer.py  *)
(* main) pull transcribed videos through claim_transcribed.  Every call on *)
(* the store (one select or one update statement) is one atomic step; the  *)
(* steps of different workers interleave freely.  Time is counted in hours.*)
(***************************************************************************)
EXTENDS Integers, FiniteSets, Sequences, TLC

\* ------------------------------------------------------------ bounds
NumVideos == 2
MaxTime == 3
\* how many calls raise or are interrupted in one run
MaxFaults == 1
\* args.batch: rounds of the for loop of main
Batch == 1
\* lost updates after which a claim call is expected to give up
RetryBound == 2
\* --batch of the SQLite transcriber
SqlBatch == 2

\* ------------------------------------------------- program constants
STALE_HOURS == 2

\* value of a null claimed_at column
NullTime == -1
\* value of a null claimed_by column
NoWorker == "none"
\* value of a null text column (transcript, summary, error_message)
NoText == ""
\* no row selected or held
NoVideo == 0
\* no batch run and no statistics: the claim protocol has neither
NoBatch == <<>>
NoStats == <<>>
NoCounts == <<>>

Videos == 1..NumVideos
Transcribers == {"t1", "t2"}
Summarizers == {"s1"}
Workers == Transcribers \cup Summarizers

\* --continuous: t1 and s1 run forever, t2 runs one batch
Continuous(w) == w \in {"t1", "s1"}

\* the ordering keys of a row (read-only for the claim protocol)
session_year(v) == 2024 + (v \div 2)
video_date(v) == v % 2

VARIABLES
    items,       \* the table: video_id -> row
    now,         \* wall clock (datetime.utcnow()), in hours
    pc,          \* worker -> its position in main / claim_* / process_video
    i,           \* worker -> index of the for loop over range(args.batch)
    video,       \* worker -> video_id selected or claimed by the running call
    row,         \* worker -> transcript of the row its claim returned
    stale_time,  \* worker -> stale_time of its running _reclaim_stale
    msg,         \* worker -> error_message it is about to commit
    rivals,      \* worker -> workers that had selected the same row and not
                 \*           yet written when it selected (history)
    faults,      \* exceptions and interrupts raised so far
    attempts,    \* worker -> conditional updates its running claim call lost
    store0,      \* the table as the run found it (history)
    videos,      \* batch run -> the rows its select returned, still to do
    stats,       \* the result of the last get_stats
    counts       \* processed, succeeded, failed of each batch script's run

vars == <<items, now, pc, i, video, row, stale_time, msg, rivals, faults,
          attempts, store0, videos, stats, counts>>

\* ------------------------------------------------------------ the table

Pending == "pending"
Processing == "processing"
Transcribed == "transcribed"
Summarizing == "summarizing"
Summarized == "summarized"
Error == "error"
Skipped == "skipped"

NewRow == [status |-> Pending, claimed_by |-> NoWorker, claimed_at |-> NullTime,
           transcript |-> NoText, summary |-> NoText, error_message |-> NoText]

\* the status a worker's claim searches and the status it writes
Available(w) == IF w \in Transcribers THEN Pending ELSE Transcribed
Claimed(w) == IF w \in Transcribers THEN Processing ELSE Summarizing

\* stale_time = utcnow() - timedelta(hours=STALE_HOURS)
StaleTime(t) == t - STALE_HOURS

\* the comparison turned round (.gt for .lt)
IsStale_Gt(r, st) == r.claimed_at # NullTime /\ r.claimed_at > st

\* .lte for .lt
IsStale_Le(r, st) == r.claimed_at # NullTime /\ r.claimed_at <= st

\* .lt('claimed_at', stale_time): a null claimed_at matches nothing
IsStale(r, st) == r.claimed_at # NullTime /\ r.claimed_at < st

\* the reset that forgets the claimed_by column
ReclaimRow_KeepsClaimedBy(r, from, to, st) ==
    IF r.status = from /\ IsStale(r, st)
    THEN [r EXCEPT !.status = to, !.claimed_at = NullTime]
    ELSE r

\* the reset that forgets the status column
ReclaimRow_KeepsStatus(r, from, to, st) ==
    IF r.status = from /\ IsStale(r, st)
    THEN [r EXCEPT !.claimed_by = NoWorker, !.claimed_at = NullTime]
    ELSE r

\* the reset without its .eq('status', from) condition
ReclaimRow_AnyStatus(r, from, to, st) ==
    IF IsStale(r, st)
    THEN [r EXCEPT !.status = to, !.claimed_by = NoWorker, !.claimed_at = NullTime]
    ELSE r

\* update {...}.eq('status', from).lt('claimed_at', st): one bulk statement
ReclaimRow(r, from, to, st) ==
    IF r.status = from /\ IsStale(r, st)
    THEN [r EXCEPT !.status = to, !.claimed_by = NoWorker, !.claimed_at = NullTime]
    ELSE r

\* the sweep that deletes the stale rows
\* a sweep that resets nothing
ReclaimTable_Noop(table, from, to, st) == table

ReclaimTable_Deletes(table, from, to, st) ==
    [v \in {u \in DOMAIN table : ~(table[u].status = from /\ IsStale(table[u], st))}
        |-> table[v]]

\* the statement applied to the table: an UPDATE keeps every row
ReclaimTable(table, from, to, st) ==
    [v \in DOMAIN table |-> ReclaimRow(table[v], from, to, st)]

\* order('session_year', desc).order('video_date', desc)
Before(a, b) ==
    \/ session_year(a) > session_year(b)
    \/ session_year(a) = session_year(b) /\ video_date(a) > video_date(b)

\* select('*').eq('status', s).order(...).limit(1): the rows it may return
Candidates(s) == {v \in Videos : items[v].status = s}
\* the ordering ascending
Best_Oldest(s) == {v \in Candidates(s) : \A u \in Candidates(s) : ~Before(v, u)}

\* the ordering that lets a row tie with itself
Best_Strict(s) == {v \in Candidates(s) : \A u \in Candidates(s) : Before(v, u)}

Best(s) == {v \in Candidates(s) : \A u \in Candidates(s) : ~Before(u, v)}

\* the claim without its .eq('status', from) condition
ClaimMatches_Unguarded(r, from) == TRUE

\* update({status, claimed_by, claimed_at}).eq('video_id', v).eq('status', from)
ClaimMatches(r, from) == r.status = from
\* the claim that writes the whole row anew
ClaimRow_ClearsTranscript(r, to, w, t) ==
    [r EXCEPT !.status = to, !.claimed_by = w, !.claimed_at = t, !.transcript = NoText]

ClaimRow(r, to, w, t) ==
    [r EXCEPT !.status = to, !.claimed_by = w, !.claimed_at = t]

\* the update of set_transcribed / set_summarized / set_error: .eq('video_id', v)
CommitMatches(r, w) == TRUE
\* set_transcribed that forgets the transcript column
TranscribedRow_KeepsTranscript(r, text) ==
    [r EXCEPT !.status = Transcribed,
              !.claimed_by = NoWorker, !.claimed_at = NullTime]

TranscribedRow(r, text) ==
    [r EXCEPT !.transcript = text, !.status = Transcribed,
              !.claimed_by = NoWorker, !.claimed_at = NullTime]
\* set_summarized that leaves the claim of the summarizer in the row
SummarizedRow_KeepsClaim(r, text) ==
    [r EXCEPT !.summary = text, !.status = Summarized]
SummarizedRow(r, text) ==
    [r EXCEPT !.summary = text, !.status = Summarized,
              !.claimed_by = NoWorker, !.claimed_at = NullTime]
\* set_error that forgets the claimed_at column
ErrorRow_KeepsClaimedAt(r, m) ==
    [r EXCEPT !.status = Error, !.error_message = m, !.claimed_by = NoWorker]

ErrorRow(r, m) ==
    [r EXCEPT !.status = Error, !.error_message = m,
              !.claimed_by = NoWorker, !.claimed_at = NullTime]

\* ------------------------------------------------------------ workers

HoldPcs == {"process", "set_transcribed", "set_summarized", "set_error"}
CallPcs == {"claim", "reclaim2", "select", "update"}
StopPcs == {"finished", "shutdown", "crashed"}

\* the text a worker's stage processor produces
Transcript(w) == w
Summary(text) == text

TranscribeErrors == {"Video too long", "Failed to download audio", "Failed to transcribe"}
SummarizeErrors == {"Claude API error"}
\* what process_video reports as the reason of a failure
ReportedErrors == TranscribeErrors \cup SummarizeErrors \cup {"Empty transcript"}
\* str(e)[:200] of an exception of the store client: any text, also none
StoreErrors == {"store error", NoText}

Init ==
    /\ items = [v \in Videos |-> NewRow]
    /\ now = 0
    /\ pc = [w \in Workers |-> "claim"]
    /\ i = [w \in Workers |-> 0]
    /\ video = [w \in Workers |-> NoVideo]
    /\ row = [w \in Workers |-> NoText]
    /\ stale_time = [w \in Workers |-> 0]
    /\ msg = [w \in Workers |-> NoText]
    /\ rivals = [w \in Workers |-> {}]
    /\ faults = 0
    /\ attempts = [w \in Workers |-> 0]
    /\ store0 = items
    /\ videos = NoBatch
    /\ stats = NoStats
    /\ counts = NoCounts

\* the clock advances
Tick ==
    /\ now < MaxTime
    /\ now' = now + 1
    /\ UNCHANGED <<items, pc, i, video, row, stale_time, msg, rivals, faults, attempts, store0, videos, stats, counts>>

\* _reclaim_stale, first statement: processing rows older than stale_time
ReclaimProcessing(w) ==
    /\ pc[w] = "claim"
    /\ stale_time' = [stale_time EXCEPT ![w] = StaleTime(now)]
    /\ items' = ReclaimTable(items, Processing, Pending, StaleTime(now))
    /\ pc' = [pc EXCEPT ![w] = "reclaim2"]
    /\ UNCHANGED <<now, i, video, row, msg, rivals, faults, attempts, store0, videos, stats, counts>>

\* _reclaim_stale, second statement: summarizing rows older than stale_time
ReclaimSummarizing(w) ==
    /\ pc[w] = "reclaim2"
    /\ items' = ReclaimTable(items, Summarizing, Transcribed, stale_time[w])
    /\ stale_time' = [stale_time EXCEPT ![w] = 0]
    /\ pc' = [pc EXCEPT ![w] = "select"]
    /\ UNCHANGED <<now, i, video, row, msg, rivals, faults, attempts, store0, videos, stats, counts>>

\* main without its 'if not args.continuous: break'
AfterBatch_Continuous(w) == "claim"

\* where main goes when the for loop is left: the while loop goes round
\* again under --continuous and ends otherwise
AfterBatch(w) == IF Continuous(w) THEN "claim" ELSE "finished"

\* the select of claim_*: a row is found
SelectRow(w) ==
    /\ pc[w] = "select"
    /\ \E v \in Best(Available(w)) :
        /\ video' = [video EXCEPT ![w] = v]
        /\ rivals' = [rivals EXCEPT ![w] =
                        {u \in Workers \ {w} : pc[u] = "update" /\ video[u] = v}]
    /\ pc' = [pc EXCEPT ![w] = "update"]
    /\ UNCHANGED <<items, now, i, row, stale_time, msg, faults, attempts, store0, videos, stats, counts>>

\* the select of claim_*: no row, claim_* returns None and main breaks
SelectNone(w) ==
    /\ pc[w] = "select"
    /\ Best(Available(w)) = {}
    /\ pc' = [pc EXCEPT ![w] = AfterBatch(w)]
    /\ i' = [i EXCEPT ![w] = 0]
    /\ video' = [video EXCEPT ![w] = NoVideo]
    /\ attempts' = [attempts EXCEPT ![w] = 0]
    /\ UNCHANGED <<items, now, row, stale_time, msg, rivals, faults, store0, videos, stats, counts>>

\* the conditional update of claim_* matched: the row is returned
UpdateWon(w) ==
    /\ pc[w] = "update"
    /\ ClaimMatches(items[video[w]], Available(w))
    /\ items' = [items EXCEPT ![video[w]] = ClaimRow(@, Claimed(w), w, now)]
    /\ row' = [row EXCEPT ![w] = items[video[w]].transcript]
    /\ pc' = [pc EXCEPT ![w] = "process"]
    /\ attempts' = [attempts EXCEPT ![w] = 0]
    /\ UNCHANGED <<now, i, video, stale_time, msg, rivals, faults, store0, videos, stats, counts>>

\* the conditional update matched no row: claim_* calls itself, whatever the
\* number of updates the call has lost already
UpdateLost(w) ==
    /\ pc[w] = "update"
    /\ ~ClaimMatches(items[video[w]], Available(w))
    /\ pc' = [pc EXCEPT ![w] = "claim"]
    /\ video' = [video EXCEPT ![w] = NoVideo]
    /\ rivals' = [rivals EXCEPT ![w] = {}]
    /\ attempts' = [attempts EXCEPT ![w] = @ + 1]
    /\ UNCHANGED <<items, now, i, row, stale_time, msg, faults, store0, videos, stats, counts>>

\* process_video: the stage processor succeeds
ProcessOk(w) ==
    /\ pc[w] = "process"
    /\ w \in Summarizers => row[w] # NoText
    /\ pc' = [pc EXCEPT ![w] =
                IF w \in Transcribers THEN "set_transcribed" ELSE "set_summarized"]
    /\ UNCHANGED <<items, now, i, video, row, stale_time, msg, rivals, faults, attempts, store0, videos, stats, counts>>

\* process_video: the stage processor reports a failure
ProcessFailed(w) ==
    /\ pc[w] = "process"
    /\ \E m \in (IF w \in Transcribers THEN TranscribeErrors
                 ELSE IF row[w] = NoText THEN {"Empty transcript"}
                 ELSE SummarizeErrors) :
        msg' = [msg EXCEPT ![w] = m]
    /\ pc' = [pc EXCEPT ![w] = "set_error"]
    /\ UNCHANGED <<items, now, i, video, row, stale_time, rivals, faults, attempts, store0, videos, stats, counts>>

\* process_video of the transcriber raises (nothing catches it up to main)
ProcessRaised(w) ==
    /\ pc[w] = "process"
    /\ w \in Transcribers
    /\ faults < MaxFaults
    /\ faults' = faults + 1
    /\ pc' = [pc EXCEPT ![w] = "crashed"]
    /\ UNCHANGED <<items, now, i, video, row, stale_time, msg, rivals, attempts, store0, videos, stats, counts>>

\* main after process_video returned: next round of the for loop, or after it
NextIteration(w) ==
    /\ pc' = [pc EXCEPT ![w] = IF i[w] + 1 < Batch THEN "claim" ELSE AfterBatch(w)]
    /\ i' = [i EXCEPT ![w] = IF i[w] + 1 < Batch THEN i[w] + 1 ELSE 0]
    /\ video' = [video EXCEPT ![w] = NoVideo]
    /\ row' = [row EXCEPT ![w] = NoText]
    /\ msg' = [msg EXCEPT ![w] = NoText]
    /\ rivals' = [rivals EXCEPT ![w] = {}]

SetTranscribed(w) ==
    /\ pc[w] = "set_transcribed"
    /\ items' = [items EXCEPT ![video[w]] =
                    IF CommitMatches(@, w) THEN TranscribedRow(@, Transcript(w)) ELSE @]
    /\ NextIteration(w)
    /\ UNCHANGED <<now, stale_time, faults, attempts, store0, videos, stats, counts>>

SetSummarized(w) ==
    /\ pc[w] = "set_summarized"
    /\ items' = [items EXCEPT ![video[w]] =
                    IF CommitMatches(@, w) THEN SummarizedRow(@, Summary(row[w])) ELSE @]
    /\ NextIteration(w)
    /\ UNCHANGED <<now, stale_time, faults, attempts, store0, videos, stats, counts>>

SetError(w) ==
    /\ pc[w] = "set_error"
    /\ items' = [items EXCEPT ![video[w]] =
                    IF CommitMatches(@, w) THEN ErrorRow(@, msg[w]) ELSE @]
    /\ NextIteration(w)
    /\ UNCHANGED <<now, stale_time, faults, attempts, store0, videos, stats, counts>>

\* a call on the store raises (the store is unreachable; nothing is written).
\* Inside the try of the summarizer's process_video the handler commits the
\* error; everywhere else the exception leaves main.
StoreRaised(w) ==
    /\ pc[w] \in CallPcs \cup {"set_transcribed", "set_summarized", "set_error"}
    /\ faults < MaxFaults
    /\ faults' = faults + 1
    /\ IF pc[w] = "set_summarized"
       THEN /\ pc' = [pc EXCEPT ![w] = "set_error"]
            /\ \E m \in StoreErrors : msg' = [msg EXCEPT ![w] = m]
            /\ video' = video
       ELSE /\ pc' = [pc EXCEPT ![w] = "crashed"]
            /\ msg' = msg
            /\ video' = [video EXCEPT ![w] = IF pc[w] \in CallPcs THEN NoVideo ELSE @]
    /\ attempts' = [attempts EXCEPT ![w] = 0]
    /\ UNCHANGED <<items, now, i, row, stale_time, rivals, store0, videos, stats, counts>>

\* Ctrl-C: main leaves its loops wherever it is
KeyboardInterrupt(w) ==
    /\ pc[w] \notin StopPcs
    /\ faults < MaxFaults
    /\ faults' = faults + 1
    /\ pc' = [pc EXCEPT ![w] = "shutdown"]
    /\ video' = [video EXCEPT ![w] = IF pc[w] \in CallPcs THEN NoVideo ELSE @]
    /\ attempts' = [attempts EXCEPT ![w] = 0]
    /\ UNCHANGED <<items, now, i, row, stale_time, msg, rivals, store0, videos, stats, counts>>

Next ==
    \/ Tick
    \/ \E w \in Workers : ReclaimProcessing(w)
    \/ \E w \in Workers : ReclaimSummarizing(w)
    \/ \E w \in Workers : SelectRow(w)
    \/ \E w \in Workers : SelectNone(w)
    \/ \E w \in Workers : UpdateWon(w)
    \/ \E w \in Workers : UpdateLost(w)
    \/ \E w \in Workers : ProcessOk(w)
    \/ \E w \in Workers : ProcessFailed(w)
    \/ \E w \in Workers : ProcessRaised(w)
    \/ \E w \in Workers : SetTranscribed(w)
    \/ \E w \in Workers : SetSummarized(w)
    \/ \E w \in Workers : SetError(w)
    \/ \E w \in Workers : StoreRaised(w)
    \/ \E w \in Workers : KeyboardInterrupt(w)

Spec == Init /\ [][Next]_vars

\* ------------------------------------------- the runs of the transcriber

\* one step of main of worker w that no exception and no Ctrl-C cuts short
MainStep(w) ==
    \/ ReclaimProcessing(w)
    \/ ReclaimSummarizing(w)
    \/ SelectRow(w)
    \/ SelectNone(w)
    \/ UpdateWon(w)
    \/ UpdateLost(w)
    \/ ProcessOk(w)
    \/ ProcessFailed(w)
    \/ SetTranscribed(w)
    \/ SetError(w)

\* the transcribers alone: t1 continuous, t2 one batch
RunNext ==
    \/ Tick
    \/ \E w \in Transcribers : MainStep(w)
    \/ \E w \in Transcribers : ProcessRaised(w)
    \/ \E w \in Transcribers : StoreRaised(w)
    \/ \E w \in Transcribers : KeyboardInterrupt(w)

\* a running main is scheduled: every call it makes returns or raises (the
\* subprocesses of process_video run under a timeout)
RunSpec ==
    /\ Init
    /\ [][RunNext]_vars
    /\ \A w \in Transcribers : WF_vars(MainStep(w))

\* ------------------------------------------- _reclaim_stale on its own

\* the rows a table can hold when a claim call starts its sweep at time t
SweepRows(t) ==
    {[NewRow EXCEPT !.status = s] : s \in {Pending, Error}}
    \cup {[NewRow EXCEPT !.status = s, !.transcript = "t1"] :
                s \in {Transcribed, Summarized}}
    \cup {[NewRow EXCEPT !.status = Processing, !.claimed_by = w, !.claimed_at = c] :
                w \in Transcribers, c \in 0..t}
    \cup {[NewRow EXCEPT !.status = Summarizing, !.transcript = "t1",
                         !.claimed_by = w, !.claimed_at = c] :
                w \in Summarizers, c \in 0..t}

\* any table, any hour: every worker is about to call _reclaim_stale
SweepInit ==
    /\ now \in 0..MaxTime
    /\ items \in [Videos -> SweepRows(now)]
    /\ store0 = items
    /\ videos = NoBatch
    /\ stats = NoStats
    /\ counts = NoCounts
    /\ pc = [w \in Workers |-> "claim"]
    /\ i = [w \in Workers |-> 0]
    /\ video = [w \in Workers |-> NoVideo]
    /\ row = [w \in Workers |-> NoText]
    /\ stale_time = [w \in Workers |-> 0]
    /\ msg = [w \in Workers |-> NoText]
    /\ rivals = [w \in Workers |-> {}]
    /\ faults = 0
    /\ attempts = [w \in Workers |-> 0]

\* the two statements of each worker's sweep, interleaved in every order
SweepNext ==
    \/ \E w \in Workers : ReclaimProcessing(w)
    \/ \E w \in Workers : ReclaimSummarizing(w)

SweepSpec == SweepInit /\ [][SweepNext]_vars

\* ------------------------------- the SQLite transcriber (scripts/transcriber.py)

SqliteWorkers == {"q1", "q2"}
Transcribing == "transcribing"

\* the ids of a set of rows in the order the SELECT returns them (by id)
RECURSIVE InOrder(_)
InOrder(S) ==
    IF S = {} THEN <<>>
    ELSE LET v == CHOOSE v \in S : \A u \in S : v <= u
         IN <<v>> \o InOrder(S \ {v})

Range(q) == {q[k] : k \in DOMAIN q}

\* what extract_youtube_transcript reports when it fails
ExtractErrors == {"Extract failed", "Transcript too short", "Extraction timeout"}

SqlHoldPcs == {"extract", "set_transcribed", "set_error"}

\* --continuous: q1 runs until interrupted, q2 runs one batch
SqlContinuous(q) == q = "q1"

\* main: processed = 0, succeeded = 0, failed = 0; claimed counts the videos
\* that the claim_pending calls of the run returned
ZeroCounts == [processed |-> 0, succeeded |-> 0, failed |-> 0, claimed |-> 0]

SqliteInit ==
    /\ items = [v \in Videos |-> NewRow]
    /\ now = 0
    /\ pc = [q \in SqliteWorkers |-> "select"]
    /\ i = [w \in Workers |-> 0]
    /\ video = [w \in Workers |-> NoVideo]
    /\ row = [w \in Workers |-> NoText]
    /\ stale_time = [w \in Workers |-> 0]
    /\ msg = [q \in SqliteWorkers |-> NoText]
    /\ rivals = [w \in Workers |-> {}]
    /\ faults = 0
    /\ attempts = [w \in Workers |-> 0]
    /\ store0 = items
    /\ videos = [q \in SqliteWorkers |-> <<>>]
    /\ stats = NoStats
    /\ counts = [q \in SqliteWorkers |-> ZeroCounts]

\* claim_pending: SELECT ... WHERE status = 'pending' LIMIT batch_size
SqlSelect(q) ==
    /\ pc[q] = "select"
    /\ LET pending == {v \in Videos : items[v].status = Pending}
       IN \E S \in SUBSET pending :
            /\ Cardinality(S) = IF Cardinality(pending) < SqlBatch
                                 THEN Cardinality(pending) ELSE SqlBatch
            /\ videos' = [videos EXCEPT ![q] = InOrder(S)]
            /\ pc' = [pc EXCEPT ![q] =
                        IF S # {} THEN "update"
                        ELSE IF SqlContinuous(q) THEN "select" ELSE "finished"]
    /\ UNCHANGED <<items, now, i, video, row, stale_time, msg, rivals, faults,
                   attempts, store0, stats, counts>>

\* claim_pending: UPDATE ... SET status = 'transcribing' WHERE id IN (...)
SqlUpdate(q) ==
    /\ pc[q] = "update"
    /\ items' = [v \in Videos |->
                    IF v \in Range(videos[q])
                    THEN [items[v] EXCEPT !.status = Transcribing] ELSE items[v]]
    /\ pc' = [pc EXCEPT ![q] = "extract"]
    /\ counts' = [counts EXCEPT ![q].claimed = @ + Len(videos[q])]
    /\ UNCHANGED <<now, i, video, row, stale_time, msg, rivals, faults,
                   attempts, store0, videos, stats>>

\* process_video: extract_youtube_transcript returns a transcript
SqlExtractOk(q) ==
    /\ pc[q] = "extract"
    /\ pc' = [pc EXCEPT ![q] = "set_transcribed"]
    /\ UNCHANGED <<items, now, i, video, row, stale_time, msg, rivals, faults,
                   attempts, store0, videos, stats, counts>>

\* process_video: extract_youtube_transcript returns an error
SqlExtractFailed(q) ==
    /\ pc[q] = "extract"
    /\ \E m \in ExtractErrors : msg' = [msg EXCEPT ![q] = m]
    /\ pc' = [pc EXCEPT ![q] = "set_error"]
    /\ UNCHANGED <<items, now, i, video, row, stale_time, rivals, faults,
                   attempts, store0, videos, stats, counts>>

\* a loop that counts the failures only as failed
SqlCount_SkipsFailed(c, success) ==
    [c EXCEPT !.succeeded = IF success THEN @ + 1 ELSE @,
              !.failed = IF success THEN @ ELSE @ + 1,
              !.processed = IF success THEN @ + 1 ELSE @]

\* main: succeeded += 1 or failed += 1, then processed += 1
SqlCount(c, success) ==
    [c EXCEPT !.succeeded = IF success THEN @ + 1 ELSE @,
              !.failed = IF success THEN @ ELSE @ + 1,
              !.processed = @ + 1]

\* main: the next video of the list, or the next batch, or the end of a run
\* without --continuous
SqlNextVideo(q, success) ==
    /\ videos' = [videos EXCEPT ![q] = Tail(@)]
    /\ pc' = [pc EXCEPT ![q] =
                IF Tail(videos[q]) # <<>> THEN "extract"
                ELSE IF SqlContinuous(q) THEN "select" ELSE "finished"]
    /\ msg' = [msg EXCEPT ![q] = NoText]
    /\ counts' = [counts EXCEPT ![q] = SqlCount(@, success)]

\* set_transcribed: UPDATE ... SET status = 'transcribed', transcript = ?
SqlSetTranscribed(q) ==
    /\ pc[q] = "set_transcribed"
    /\ items' = [items EXCEPT ![Head(videos[q])] =
                    [@ EXCEPT !.status = Transcribed, !.transcript = Transcript(q)]]
    /\ SqlNextVideo(q, TRUE)
    /\ UNCHANGED <<now, i, video, row, stale_time, rivals, faults,
                   attempts, store0, stats>>

\* set_error: UPDATE ... SET status = 'error' (error_message is not stored)
SqlSetError(q) ==
    /\ pc[q] = "set_error"
    /\ items' = [items EXCEPT ![Head(videos[q])] = [@ EXCEPT !.status = Error]]
    /\ SqlNextVideo(q, FALSE)
    /\ UNCHANGED <<now, i, video, row, stale_time, rivals, faults,
                   attempts, store0, stats>>

\* Ctrl-C: main leaves its loops wherever it is
SqlInterrupt(q) ==
    /\ pc[q] \notin {"finished", "shutdown"}
    /\ faults < MaxFaults
    /\ faults' = faults + 1
    /\ pc' = [pc EXCEPT ![q] = "shutdown"]
    /\ UNCHANGED <<items, now, i, video, row, stale_time, msg, rivals,
                   attempts, store0, videos, stats, counts>>

SqlStep(q) ==
    \/ SqlSelect(q)
    \/ SqlUpdate(q)
    \/ SqlExtractOk(q)
    \/ SqlExtractFailed(q)
    \/ SqlSetTranscribed(q)
    \/ SqlSetError(q)

SqliteNext ==
    \/ \E q \in SqliteWorkers : SqlStep(q)
    \/ \E q \in SqliteWorkers : SqlInterrupt(q)

\* a running main is scheduled: every call it makes returns
SqliteSpec ==
    /\ SqliteInit
    /\ [][SqliteNext]_vars
    /\ \A q \in SqliteWorkers : WF_vars(SqlStep(q))

\* ------------------------------- the Vimeo batch (scripts/vimeo_transcriber.py)

VimeoRuns == {"m1", "m2"}

\* the platform column of a row (read-only)
platform(v) == IF v = 1 THEN "youtube" ELSE "vimeo"

\* what process_vimeo_batch passes to update_video_error
VimeoErrors == {"Download failed", "Transcript too short", "Timeout"}

VimeoHoldPcs == {"work", "write_ok", "write_error"}

\* two batch runs beside the transcriber t1 of the claim protocol
VimeoInit ==
    /\ items = [v \in Videos |-> NewRow]
    /\ now = 0
    /\ pc = [a \in Workers \cup VimeoRuns |->
                IF a \in VimeoRuns THEN "read" ELSE "claim"]
    /\ i = [w \in Workers |-> 0]
    /\ video = [w \in Workers |-> NoVideo]
    /\ row = [w \in Workers |-> NoText]
    /\ stale_time = [w \in Workers |-> 0]
    /\ msg = [a \in Workers \cup VimeoRuns |-> NoText]
    /\ rivals = [w \in Workers |-> {}]
    /\ faults = 0
    /\ attempts = [w \in Workers |-> 0]
    /\ store0 = items
    /\ videos = [m \in VimeoRuns |-> <<>>]
    /\ stats = NoStats
    /\ counts = [m \in VimeoRuns |-> ZeroCounts]

\* get_pending_vimeo_videos: .eq('status', 'pending').eq('platform', 'vimeo')
\* (limit 10: more than the table holds)
VimeoRead(m) ==
    /\ pc[m] = "read"
    /\ LET found == {v \in Videos : items[v].status = Pending /\ platform(v) = "vimeo"}
       IN /\ videos' = [videos EXCEPT ![m] = InOrder(found)]
          /\ pc' = [pc EXCEPT ![m] = IF found = {} THEN "done" ELSE "work"]
          /\ counts' = [counts EXCEPT ![m].claimed = Cardinality(found)]
    /\ UNCHANGED <<items, now, i, video, row, stale_time, msg, rivals, faults,
                   attempts, store0, stats>>

\* download_vimeo_audio and extract_transcript give a transcript
VimeoWorkOk(m) ==
    /\ pc[m] = "work"
    /\ pc' = [pc EXCEPT ![m] = "write_ok"]
    /\ UNCHANGED <<items, now, i, video, row, stale_time, msg, rivals, faults,
                   attempts, store0, videos, stats, counts>>

\* the download or the extraction fails
VimeoWorkFailed(m) ==
    /\ pc[m] = "work"
    /\ \E e \in VimeoErrors : msg' = [msg EXCEPT ![m] = e]
    /\ pc' = [pc EXCEPT ![m] = "write_error"]
    /\ UNCHANGED <<items, now, i, video, row, stale_time, rivals, faults,
                   attempts, store0, videos, stats, counts>>

\* process_vimeo_batch: succeeded += 1 after update_video_transcribed;
\* failed += 1 after update_video_error; processed += 1 at the end of the
\* loop body, which the continue after a failed download skips
VimeoCount(c, success, error) ==
    [c EXCEPT !.succeeded = IF success THEN @ + 1 ELSE @,
              !.failed = IF success THEN @ ELSE @ + 1,
              !.processed = IF ~success /\ error = "Download failed" THEN @ ELSE @ + 1]

\* for video in videos: the next one, or the results
VimeoNextVideo(m, success) ==
    /\ videos' = [videos EXCEPT ![m] = Tail(@)]
    /\ pc' = [pc EXCEPT ![m] = IF Tail(videos[m]) # <<>> THEN "work" ELSE "done"]
    /\ msg' = [msg EXCEPT ![m] = NoText]
    /\ counts' = [counts EXCEPT ![m] = VimeoCount(@, success, msg[m])]

\* update_video_transcribed: update({status, transcript}).eq('video_id', v)
VimeoWriteOk(m) ==
    /\ pc[m] = "write_ok"
    /\ items' = [items EXCEPT ![Head(videos[m])] =
                    [@ EXCEPT !.status = Transcribed, !.transcript = Transcript(m)]]
    /\ VimeoNextVideo(m, TRUE)
    /\ UNCHANGED <<now, i, video, row, stale_time, rivals, faults,
                   attempts, store0, stats>>

\* update_video_error: update({status, error_message}).eq('video_id', v)
VimeoWriteError(m) ==
    /\ pc[m] = "write_error"
    /\ items' = [items EXCEPT ![Head(videos[m])] =
                    [@ EXCEPT !.status = Error, !.error_message = msg[m]]]
    /\ VimeoNextVideo(m, FALSE)
    /\ UNCHANGED <<now, i, video, row, stale_time, rivals, faults,
                   attempts, store0, stats>>

VimeoNext ==
    \/ MainStep("t1")
    \/ \E m \in VimeoRuns : VimeoRead(m)
    \/ \E m \in VimeoRuns : VimeoWorkOk(m)
    \/ \E m \in VimeoRuns : VimeoWorkFailed(m)
    \/ \E m \in VimeoRuns : VimeoWriteOk(m)
    \/ \E m \in VimeoRuns : VimeoWriteError(m)

VimeoSpec == VimeoInit /\ [][VimeoNext]_vars

\* ------------------------- the error recovery (scripts/recover_errors.py)

\* two runs of recover_errors.py
RecoverRuns == {"r1", "r2"}

\* two recovery runs beside the transcriber t1 and the summarizer s1
RecoverInit ==
    /\ items = [v \in Videos |-> NewRow]
    /\ now = 0
    /\ pc = [a \in Workers \cup RecoverRuns |->
                IF a \in RecoverRuns THEN "read" ELSE "claim"]
    /\ i = [w \in Workers |-> 0]
    /\ video = [w \in Workers |-> NoVideo]
    /\ row = [w \in Workers |-> NoText]
    /\ stale_time = [w \in Workers |-> 0]
    /\ msg = [a \in Workers \cup RecoverRuns |-> NoText]
    /\ rivals = [w \in Workers |-> {}]
    /\ faults = 0
    /\ attempts = [w \in Workers |-> 0]
    /\ store0 = items
    /\ videos = [r \in RecoverRuns |-> <<>>]
    /\ stats = NoStats
    /\ counts = NoCounts

\* get_error_videos: select(...).eq('status', 'error')
RecoverRead(r) ==
    /\ pc[r] = "read"
    /\ LET errors == {v \in Videos : items[v].status = Error}
       IN /\ videos' = [videos EXCEPT ![r] = InOrder(errors)]
          /\ pc' = [pc EXCEPT ![r] = IF errors = {} THEN "done" ELSE "extract"]
    /\ UNCHANGED <<items, now, i, video, row, stale_time, msg, rivals, faults,
                   attempts, store0, stats, counts>>

\* for i, video in enumerate(errors, 1): the next one, or the results
RecoverNextVideo(r) ==
    /\ videos' = [videos EXCEPT ![r] = Tail(@)]
    /\ pc' = [pc EXCEPT ![r] = IF Tail(videos[r]) # <<>> THEN "extract" ELSE "done"]

\* extract_transcript returns a transcript
RecoverExtractOk(r) ==
    /\ pc[r] = "extract"
    /\ pc' = [pc EXCEPT ![r] = "write"]
    /\ UNCHANGED <<items, now, i, video, row, stale_time, msg, rivals, faults,
                   attempts, store0, videos, stats, counts>>

\* the row has no url, or extract_transcript returns no transcript:
\* still_failed += 1 and nothing is written
RecoverExtractFailed(r) ==
    /\ pc[r] = "extract"
    /\ RecoverNextVideo(r)
    /\ UNCHANGED <<items, now, i, video, row, stale_time, msg, rivals, faults,
                   attempts, store0, stats, counts>>

\* update_video_transcribed: update({status, transcript, error_message})
\* .eq('video_id', v)
RecoveredRow(r, text) ==
    [r EXCEPT !.status = Transcribed, !.transcript = text, !.error_message = NoText]

RecoverWrite(r) ==
    /\ pc[r] = "write"
    /\ items' = [items EXCEPT ![Head(videos[r])] = RecoveredRow(@, Transcript(r))]
    /\ RecoverNextVideo(r)
    /\ UNCHANGED <<now, i, video, row, stale_time, msg, rivals, faults,
                   attempts, store0, stats, counts>>

\* the workers of the claim protocol that run beside the recovery
RecoverWorkers == {"t1", "s1"}

RecoverNext ==
    \/ \E w \in RecoverWorkers : ReclaimProcessing(w)
    \/ \E w \in RecoverWorkers : ReclaimSummarizing(w)
    \/ \E w \in RecoverWorkers : SelectRow(w)
    \/ \E w \in RecoverWorkers : SelectNone(w)
    \/ \E w \in RecoverWorkers : UpdateWon(w)
    \/ \E w \in RecoverWorkers : ProcessOk(w)
    \/ \E w \in RecoverWorkers : ProcessFailed(w)
    \/ \E w \in RecoverWorkers : SetTranscribed(w)
    \/ \E w \in RecoverWorkers : SetSummarized(w)
    \/ \E w \in RecoverWorkers : SetError(w)
    \/ \E r \in RecoverRuns : RecoverRead(r)
    \/ \E r \in RecoverRuns : RecoverExtractOk(r)
    \/ \E r \in RecoverRuns : RecoverExtractFailed(r)
    \/ \E r \in RecoverRuns : RecoverWrite(r)

RecoverSpec == RecoverInit /\ [][RecoverNext]_vars

\* ------------------------------- the discovery (scripts/scraper.py)

\* one run of the scraper
Scrapers == {"d1"}

\* what the store answers to insert(video_record, upsert=True) for a video_id
\* that it already holds: a duplicate-key error, which save_video catches, or
\* the merge that upsert=True asks for
UpsertOutcomes == {"duplicate", "merged"}

\* the columns of video_record that a row of the model has: "status": "pending"
MergedRow(r) == [r EXCEPT !.status = Pending]

\* insert(video_record, upsert=True) on an existing row
UpsertRow(r, outcome) == IF outcome = "merged" THEN MergedRow(r) ELSE r

\* the scraper finds every video of the table again, beside t1 and s1
ScrapeInit ==
    /\ items = [v \in Videos |-> NewRow]
    /\ now = 0
    /\ pc = [a \in Workers \cup Scrapers |->
                IF a \in Scrapers THEN "save" ELSE "claim"]
    /\ i = [w \in Workers |-> 0]
    /\ video = [w \in Workers |-> NoVideo]
    /\ row = [w \in Workers |-> NoText]
    /\ stale_time = [w \in Workers |-> 0]
    /\ msg = [a \in Workers \cup Scrapers |-> NoText]
    /\ rivals = [w \in Workers |-> {}]
    /\ faults = 0
    /\ attempts = [w \in Workers |-> 0]
    /\ store0 = items
    /\ videos = [d \in Scrapers |-> InOrder(Videos)]
    /\ stats = NoStats
    /\ counts = NoCounts

\* save_video for the next video of the scrape: the insert into Supabase (the
\* INSERT OR IGNORE that follows goes to the local SQLite file, where a row
\* with the same video_id is left as it is)
SaveVideo(d) ==
    /\ pc[d] = "save"
    /\ \E outcome \in UpsertOutcomes :
         items' = [items EXCEPT ![Head(videos[d])] = UpsertRow(@, outcome)]
    /\ videos' = [videos EXCEPT ![d] = Tail(@)]
    /\ pc' = [pc EXCEPT ![d] = IF Tail(videos[d]) # <<>> THEN "save" ELSE "done"]
    /\ UNCHANGED <<now, i, video, row, stale_time, msg, rivals, faults,
                   attempts, store0, stats, counts>>

ScrapeNext ==
    \/ \E w \in RecoverWorkers : ReclaimProcessing(w)
    \/ \E w \in RecoverWorkers : ReclaimSummarizing(w)
    \/ \E w \in RecoverWorkers : SelectRow(w)
    \/ \E w \in RecoverWorkers : SelectNone(w)
    \/ \E w \in RecoverWorkers : UpdateWon(w)
    \/ \E w \in RecoverWorkers : UpdateLost(w)
    \/ \E w \in RecoverWorkers : ProcessOk(w)
    \/ \E w \in RecoverWorkers : ProcessFailed(w)
    \/ \E w \in RecoverWorkers : SetTranscribed(w)
    \/ \E w \in RecoverWorkers : SetSummarized(w)
    \/ \E w \in RecoverWorkers : SetError(w)
    \/ \E d \in Scrapers : SaveVideo(d)

ScrapeSpec == ScrapeInit /\ [][ScrapeNext]_vars

\* ------------------------------- the batch processor (processor.py)

\* two runs of process_batch on the SQLite file
Processors == {"p1", "p2"}

\* what transcribe_audio returns: the text of the transcript file, or "" when
\* Whisper wrote no file
WhisperTexts(p) == {Transcript(p), NoText}

\* update_video_status: if transcript: status and transcript; elif summary:
\* status and summary; else: status alone
update_video_status(r, status, transcript, summary) ==
    IF transcript # NoText
    THEN [r EXCEPT !.status = status, !.transcript = transcript]
    ELSE IF summary # NoText
         THEN [r EXCEPT !.status = status, !.summary = summary]
         ELSE [r EXCEPT !.status = status]

ProcessorInit ==
    /\ items = [v \in Videos |-> NewRow]
    /\ now = 0
    /\ pc = [p \in Processors |-> "select"]
    /\ i = [w \in Workers |-> 0]
    /\ video = [w \in Workers |-> NoVideo]
    /\ row = [w \in Workers |-> NoText]
    /\ stale_time = [w \in Workers |-> 0]
    /\ msg = [p \in Processors |-> NoText]
    /\ rivals = [w \in Workers |-> {}]
    /\ faults = 0
    /\ attempts = [w \in Workers |-> 0]
    /\ store0 = items
    /\ videos = [p \in Processors |-> <<>>]
    /\ stats = NoStats
    /\ counts = NoCounts

\* process_batch: SELECT * FROM videos WHERE status = 'pending' ... LIMIT ?
\* (limit 5: more than the table holds)
ProcSelect(p) ==
    /\ pc[p] = "select"
    /\ LET pending == {v \in Videos : items[v].status = Pending}
       IN /\ videos' = [videos EXCEPT ![p] = InOrder(pending)]
          /\ pc' = [pc EXCEPT ![p] = IF pending = {} THEN "done" ELSE "process"]
    /\ UNCHANGED <<items, now, i, video, row, stale_time, msg, rivals, faults,
                   attempts, store0, stats, counts>>

\* process_batch: for video in videos
ProcNextVideo(p) ==
    /\ videos' = [videos EXCEPT ![p] = Tail(@)]
    /\ pc' = [pc EXCEPT ![p] = IF Tail(videos[p]) # <<>> THEN "process" ELSE "done"]
    /\ msg' = [msg EXCEPT ![p] = NoText]

\* process_video: duration > 14400: update_video_status(video_id, "skipped")
ProcTooLong(p) ==
    /\ pc[p] = "process"
    /\ items' = [items EXCEPT ![Head(videos[p])] =
                    update_video_status(@, Skipped, NoText, NoText)]
    /\ ProcNextVideo(p)
    /\ UNCHANGED <<now, i, video, row, stale_time, rivals, faults,
                   attempts, store0, stats, counts>>

\* process_video: download_audio and transcribe_audio return
ProcTranscribed(p) ==
    /\ pc[p] = "process"
    /\ \E text \in WhisperTexts(p) : msg' = [msg EXCEPT ![p] = text]
    /\ pc' = [pc EXCEPT ![p] = "update"]
    /\ UNCHANGED <<items, now, i, video, row, stale_time, rivals, faults,
                   attempts, store0, videos, stats, counts>>

\* process_video: get_video_duration, download_audio or transcribe_audio raises
ProcRaised(p) ==
    /\ pc[p] = "process"
    /\ pc' = [pc EXCEPT ![p] = "error"]
    /\ UNCHANGED <<items, now, i, video, row, stale_time, msg, rivals, faults,
                   attempts, store0, videos, stats, counts>>

\* process_video: update_video_status(video_id, "transcribed", transcript=transcript)
ProcUpdate(p) ==
    /\ pc[p] = "update"
    /\ items' = [items EXCEPT ![Head(videos[p])] =
                    update_video_status(@, Transcribed, msg[p], NoText)]
    /\ ProcNextVideo(p)
    /\ UNCHANGED <<now, i, video, row, stale_time, rivals, faults,
                   attempts, store0, stats, counts>>

\* process_video: except Exception: update_video_status(video_id, "error")
ProcError(p) ==
    /\ pc[p] = "error"
    /\ items' = [items EXCEPT ![Head(videos[p])] =
                    update_video_status(@, Error, NoText, NoText)]
    /\ ProcNextVideo(p)
    /\ UNCHANGED <<now, i, video, row, stale_time, rivals, faults,
                   attempts, store0, stats, counts>>

ProcessorNext ==
    \/ \E p \in Processors : ProcSelect(p)
    \/ \E p \in Processors : ProcTooLong(p)
    \/ \E p \in Processors : ProcTranscribed(p)
    \/ \E p \in Processors : ProcRaised(p)
    \/ \E p \in Processors : ProcUpdate(p)
    \/ \E p \in Processors : ProcError(p)

ProcessorSpec == ProcessorInit /\ [][ProcessorNext]_vars

\* ------------------------- continuous workers under a supervisor

\* one --continuous worker per stage, restarted when it dies
Supervised == {"t1", "s1"}

\* the claim that w leaves behind when it dies now can still become stale
\* before the clock of the model stops
ClaimCanExpire(w) ==
    pc[w] \in HoldPcs => items[video[w]].claimed_at + STALE_HOURS < MaxTime

\* the supervisor starts main again after a crash: a new process, no locals
Restart(w) ==
    /\ pc[w] = "crashed"
    /\ pc' = [pc EXCEPT ![w] = "claim"]
    /\ i' = [i EXCEPT ![w] = 0]
    /\ video' = [video EXCEPT ![w] = NoVideo]
    /\ row' = [row EXCEPT ![w] = NoText]
    /\ msg' = [msg EXCEPT ![w] = NoText]
    /\ rivals' = [rivals EXCEPT ![w] = {}]
    /\ UNCHANGED <<items, now, stale_time, faults, attempts, store0, videos,
                   stats, counts>>

\* what a scheduled worker does: a step of main, or its restart (alone in
\* its stage, a worker never loses the conditional update of its claim)
ProgressStep(w) ==
    \/ ReclaimProcessing(w)
    \/ ReclaimSummarizing(w)
    \/ SelectRow(w)
    \/ SelectNone(w)
    \/ UpdateWon(w)
    \/ ProcessOk(w)
    \/ ProcessFailed(w)
    \/ SetTranscribed(w)
    \/ SetSummarized(w)
    \/ SetError(w)
    \/ Restart(w)

ProgressNext ==
    \/ Tick
    \/ \E w \in Supervised : ProgressStep(w)
    \/ \E w \in Supervised : ProcessRaised(w) /\ ClaimCanExpire(w)
    \/ \E w \in Supervised : StoreRaised(w) /\ ClaimCanExpire(w)

\* time passes, and a worker that can take a step is scheduled
ProgressSpec ==
    /\ Init
    /\ [][ProgressNext]_vars
    /\ WF_vars(Tick)
    /\ \A w \in Supervised : WF_vars(ProgressStep(w))

\* ------------------------------------------------------------ get_stats

\* stats.get(status, 1)
CountOf_One(st, status) == IF status \in DOMAIN st THEN st[status] ELSE 1

\* stats.get(status, 0)
CountOf(st, status) == IF status \in DOMAIN st THEN st[status] ELSE 0

\* for row in result.data: stats[status] = stats.get(status, 0) + 1
RECURSIVE CountRows(_, _)
CountRows(rows, st) ==
    IF rows = <<>> THEN st
    ELSE LET status == Head(rows).status
         IN CountRows(Tail(rows),
                [s \in DOMAIN st \cup {status} |->
                    IF s = status THEN CountOf(st, status) + 1 ELSE st[s]])

\* select('status') returns every row of the table
get_stats(table) == CountRows([k \in 1..Cardinality(DOMAIN table) |-> table[k]], <<>>)

\* one call of get_stats: one read of the table
GetStats ==
    /\ stats' = get_stats(items)
    /\ UNCHANGED <<items, now, pc, i, video, row, stale_time, msg, rivals, faults,
                   attempts, store0, videos, counts>>

\* any table, any hour; the table is read while the workers' sweeps run
StatsNext ==
    \/ GetStats
    \/ SweepNext

StatsSpec == SweepInit /\ [][StatsNext]_vars

\* ------------------------------------------------------------ properties

ClaimedStatuses == {Processing, Summarizing}
ClaimCleared(r) == r.claimed_by = NoWorker /\ r.claimed_at = NullTime

\* w holds v: its claim call returned v and it has not yet committed
Holds(w, v) == pc[w] \in HoldPcs /\ video[w] = v

\* the last claim call of w returned v (w may since have stopped)
Returned(w, v) == pc[w] \in HoldPcs \cup {"crashed", "shutdown"} /\ video[w] = v

\* w's claim call returns v in this step
Returns(w, v) == pc[w] = "update" /\ video[w] = v /\ pc'[w] = "process"

\* the store executes w's commit in this step (the call did not raise)
Commits(w, call) == pc[w] = call /\ pc'[w] \in {"claim", "finished"}

\* C1: no two distinct workers ever hold the same item at the same time,
\* a worker holding an item from the return of its claim to its own commit.
\* Violated: a worker that is still processing after STALE_HOURS loses the
\* row to the reclaim sweep and a second worker claims it.
C1_ClaimExclusivity ==
    \A v \in Videos : \A a, b \in Workers :
        a # b => ~(Holds(a, v) /\ Holds(b, v))

\* C2 (as stated): of two claim calls that selected the same available item
\* concurrently, at most one returns it.  Violated: the first call wins, the
\* row goes back to available (reclaim sweep, late commit) and the second
\* call's conditional update matches.
C2_OneOfTwoConcurrentCalls ==
    \A v \in Videos : \A a, b \in Workers :
        a # b /\ b \in rivals[a] => ~(Returned(a, v) /\ Returned(b, v))

\* C2 (amended): every step that moves an item from available to claimed is
\* the return of exactly one claim call, which is recorded as claimed_by, and
\* a claim call returns an item only in such a step.
C2_EachClaimReturnedOnce ==
    [][\A v \in Videos :
        LET moved == \/ items[v].status = Pending /\ items'[v].status = Processing
                     \/ items[v].status = Transcribed /\ items'[v].status = Summarizing
            returned == {w \in Workers : Returns(w, v)}
        IN /\ moved => Cardinality(returned) = 1
           /\ \A w \in returned :
                /\ moved
                /\ items[v].status = Available(w)
                /\ items'[v].status = Claimed(w)
                /\ items'[v].claimed_by = w]_vars

\* C2 witness: a race that is decided: a and b selected the same row, a's
\* update has matched and b's has not run yet.
C2_Witness ==
    \E v \in Videos : \E a, b \in Workers :
        /\ a # b /\ (a \in rivals[b] \/ b \in rivals[a])
        /\ Holds(a, v) /\ items[v].claimed_by = a
        /\ pc[b] = "update" /\ video[b] = v

LegalEdges ==
    {<<Pending, Processing>>, <<Processing, Transcribed>>, <<Processing, Error>>,
     <<Processing, Pending>>, <<Transcribed, Summarizing>>,
     <<Summarizing, Summarized>>, <<Summarizing, Error>>,
     <<Summarizing, Transcribed>>, <<Pending, Skipped>>, <<Transcribed, Skipped>>}

\* C3: every change of an item's status is a legal edge.  Violated: the
\* commits are not guarded, so a late commit moves a row from wherever it is.
C3_OnlyLegalEdges ==
    [][\A v \in Videos :
        items'[v].status # items[v].status =>
            <<items[v].status, items'[v].status>> \in LegalEdges]_vars

\* C4: a claim call made later than claimed_at + STALE_HOURS resets every
\* item still claimed since claimed_at to the available status of its stage,
\* with both claim columns empty: processing rows in its first statement,
\* summarizing rows in its second.  The select of the same call then sees
\* the reset rows: it takes a best available row and returns None only when
\* no row is available.
C4_StaleClaimReclaimed ==
    [][\A w \in Workers : \A v \in Videos :
        /\ ( /\ pc[w] = "claim" /\ pc'[w] = "reclaim2"
             /\ items[v].status = Processing
             /\ items[v].claimed_at # NullTime
             /\ items[v].claimed_at + STALE_HOURS < now )
           => items'[v].status = Pending /\ ClaimCleared(items'[v])
        /\ ( /\ pc[w] = "reclaim2" /\ pc'[w] = "select"
             /\ items[v].status = Summarizing
             /\ items[v].claimed_at # NullTime
             /\ items[v].claimed_at < stale_time[w] )
           => items'[v].status = Transcribed /\ ClaimCleared(items'[v])
        /\ ( /\ pc[w] = "select" /\ pc'[w] \notin {"select", "crashed", "shutdown"}
             /\ items[v].status = Available(w) )
           => /\ pc'[w] = "update"
              /\ items[video'[w]].status = Available(w)
              /\ ~Before(v, video'[w])]_vars

\* C4 witness: a holds v since more than STALE_HOURS, the row was reset and
\* a different worker b has claimed it.
C4_Witness ==
    \E v \in Videos : \E a, b \in Workers :
        /\ a # b /\ Holds(a, v) /\ Holds(b, v)
        /\ Available(a) = Available(b)
        /\ items[v].claimed_by = b /\ items[v].claimed_at > STALE_HOURS

C6_CommitsGuarded ==
    [][\A w \in Workers :
        ( /\ \E call \in {"set_transcribed", "set_summarized", "set_error"} :
                Commits(w, call)
          /\ items[video[w]].status # Claimed(w) )
        => /\ items'[video[w]].status = items[video[w]].status
           /\ items'[video[w]].claimed_by = items[video[w]].claimed_by
           /\ items'[video[w]].claimed_at = items[video[w]].claimed_at]_vars

\* C7: past stage 1 the transcript never changes, and once summarized the
\* summary never changes.  Violated: a worker whose claim was reclaimed
\* commits over the transcript of the worker that completed the stage.
C7_PayloadImmutable ==
    [][\A v \in Videos :
        /\ items[v].status \in {Transcribed, Summarizing, Summarized} =>
                items'[v].transcript = items[v].transcript
        /\ items[v].status = Summarized =>
                items'[v].summary = items[v].summary]_vars

\* C8: no item stays claimed by a worker whose loop an exception has ended.
\* Violated: nothing catches an exception raised inside process_video.
C8_ClaimClearedOnEveryExit ==
    \A w \in Workers : \A v \in Videos :
        pc[w] = "crashed" =>
            ~(items[v].status \in ClaimedStatuses /\ items[v].claimed_by = w)

\* C9: a continuous loop ends only on a shutdown request.  Violated: main
\* catches KeyboardInterrupt only, any other exception ends the loop.
C9_OnlyShutdownEndsLoop ==
    \A w \in Workers : Continuous(w) /\ pc[w] \in StopPcs => pc[w] = "shutdown"

\* C10: claimed_by is empty if and only if claimed_at is empty, for every
\* item, in every reachable state.
C10_ClaimFieldsTogether ==
    \A v \in Videos :
        items[v].claimed_by = NoWorker <=> items[v].claimed_at = NullTime

\* C10 witness: one row whose claim was set, reset by the sweep and set
\* again, beside a row whose claim was cleared by a commit.
C10_Witness ==
    \E u, v \in Videos :
        /\ items[u].claimed_by # NoWorker /\ items[u].claimed_at > STALE_HOURS
        /\ items[v].status \in {Transcribed, Summarized, Error}
        /\ ClaimCleared(items[v])

\* what one run of the sweep with stale_time st makes of a row
SweptRow(r, st) ==
    IF r.status \in ClaimedStatuses /\ r.claimed_at # NullTime /\ r.claimed_at < st
    THEN [r EXCEPT !.status = IF r.status = Processing THEN Pending ELSE Transcribed,
                   !.claimed_by = NoWorker, !.claimed_at = NullTime]
    ELSE r

\* C11: the sweep leaves an item that is already available unchanged, and
\* whenever every sweep that was started is complete (one run, several runs
\* one after the other, several runs with their statements interleaved) the
\* table is what a single run makes of the table the sweeps found.
C11_SweepIdempotent ==
    LET done == {w \in Workers : pc[w] = "select"}
        started == {w \in Workers : pc[w] # "claim"}
    IN /\ \A v \in Videos :
            store0[v].status \in {Pending, Transcribed} => items[v] = store0[v]
       /\ (done # {} /\ started = done) =>
            items = [v \in Videos |-> SweptRow(store0[v], StaleTime(now))]

\* C11 witness: all workers have run the sweep; it found one stale
\* processing row, which is pending now, beside a row that was available.
C11_Witness ==
    \E u, v \in Videos :
        /\ \A w \in Workers : pc[w] = "select"
        /\ store0[u].status = Processing /\ items[u].status = Pending
        /\ store0[v].status = Transcribed /\ items[v] = store0[v]

\* C12: the success path of stage 1.  A transcriber's claim call returns a
\* pending row as processing, claimed by that worker, with a claimed_at; and
\* when the store executes its set_transcribed while the row is still its
\* claim (no sweep in between), the row is transcribed, holds the worker's
\* transcript and has both claim columns empty.
C12_TranscribeSuccessPath ==
    [][\A w \in Transcribers : \A v \in Videos :
        /\ Returns(w, v) =>
            /\ items[v].status = Pending
            /\ items'[v].status = Processing
            /\ items'[v].claimed_by = w
            /\ items'[v].claimed_at # NullTime
            /\ items'[v].claimed_at = now
        /\ ( /\ Commits(w, "set_transcribed") /\ video[w] = v
             /\ items[v].status = Processing /\ items[v].claimed_by = w )
           => /\ items'[v].status = Transcribed
              /\ items'[v].transcript = Transcript(w)
              /\ items'[v].transcript # NoText
              /\ ClaimCleared(items'[v])]_vars

\* C12 witness: t1 has claimed and transcribed a row within the lease and
\* holds the next one.
C12_Witness ==
    \E u, v \in Videos :
        /\ items[u].status = Transcribed /\ items[u].transcript = Transcript("t1")
        /\ ClaimCleared(items[u]) /\ now < STALE_HOURS
        /\ Holds("t1", v) /\ items[v].status = Processing
        /\ items[v].claimed_by = "t1" /\ items[v].claimed_at # NullTime

\* C13: a claim call loses at most RetryBound conditional updates: it
\* returns None rather than select again once it has lost that many.
\* Violated: after a lost update claim_* calls itself unconditionally.
C13_RetriesBounded ==
    \A w \in Workers : pc[w] \in CallPcs => attempts[w] < RetryBound

\* w's claim call returns None in this step
ReturnsNone(w) ==
    /\ pc[w] \in {"select", "update"}
    /\ pc'[w] \in {"claim", "finished"}
    /\ attempts'[w] = 0

\* C14: a claim call returns None exactly when its select, which runs after
\* the sweep, finds no row in the available status of the worker's stage;
\* it then raises nothing and changes no row.
C14_NoneWhenNothingAvailable ==
    [][\A w \in Workers :
        /\ ReturnsNone(w) =>
            /\ pc[w] = "select"
            /\ Candidates(Available(w)) = {}
            /\ items' = items
            /\ pc'[w] = AfterBatch(w) /\ video'[w] = NoVideo
        /\ ( /\ pc[w] = "select" /\ pc'[w] \notin {"select", "crashed", "shutdown"}
             /\ Candidates(Available(w)) = {} )
           => ReturnsNone(w)
        /\ ( /\ pc[w] = "select" /\ pc'[w] \notin {"select", "crashed", "shutdown"}
             /\ Candidates(Available(w)) # {} )
           => pc'[w] = "update" /\ video'[w] \in Candidates(Available(w))]_vars

\* C14 witness: t2 has ended its run without a commit (no transcript and no
\* error is its own) while t1 had taken every row: its call returned None.
C14_Witness ==
    /\ pc["t2"] = "finished"
    /\ \A v \in Videos :
        /\ items[v].status \in {Processing, Transcribed}
        /\ items[v].transcript # Transcript("t2")
        /\ items[v].error_message = NoText
    /\ \E v \in Videos : items[v].status = Processing /\ items[v].claimed_by = "t1"

\* C15: an item that is summarized, in error or skipped keeps that status
\* through every claim, sweep and commit.  Violated: the commit of a worker
\* whose claim was reclaimed rewrites the status of a terminal row.
C15_TerminalStable ==
    [][\A v \in Videos :
        items[v].status \in {Summarized, Error, Skipped} =>
            items'[v].status = items[v].status]_vars

\* C16: an item found longer than four hours ends as skipped, never as
\* error.  Violated: the transcriber commits it with set_error.
C16_TooLongIsSkipped ==
    [][\A w \in Transcribers :
        Commits(w, "set_error") /\ msg[w] = "Video too long" =>
            /\ items'[video[w]].status = Skipped
            /\ items'[video[w]].status # Error]_vars

\* the store call of w's commit has raised and w still runs
CommitFailed(w) == pc[w] = "set_error" /\ msg[w] \in StoreErrors

\* C17: when the store call of a commit raises nothing is written, and the
\* worker writes nothing to the item afterwards: the row keeps the status
\* and the claim columns of the claim until a sweep resets it.  Violated:
\* the summarizer answers a failed set_summarized with set_error.
C17_FailedCommitKeepsClaim ==
    [][\A w \in Workers :
        /\ ( /\ pc[w] \in {"set_transcribed", "set_summarized", "set_error"}
             /\ faults' = faults + 1 /\ pc'[w] # pc[w] )
           => items' = items
        /\ CommitFailed(w) /\ pc'[w] # pc[w] =>
                items'[video[w]] = items[video[w]]]_vars

\* C18: a shutdown request takes effect between items only: no loop is
\* left between the return of a claim and the commit of that item.
\* Violated: KeyboardInterrupt is raised wherever main is.
C18_ShutdownBetweenItems ==
    \A w \in Workers : pc[w] = "shutdown" => video[w] = NoVideo

\* C19: an item that is processing, summarizing, transcribed or summarized
\* has an empty error_message.  Violated: neither the claim nor
\* set_transcribed / set_summarized writes the error_message column.
C19_NoErrorMessageOutsideError ==
    \A v \in Videos :
        items[v].status \in {Processing, Summarizing, Transcribed, Summarized} =>
            items[v].error_message = NoText

\* the claimed status of the stage w does not work for
OtherClaimed(w) == IF w \in Transcribers THEN Summarizing ELSE Processing

\* C20 (as stated): the sweep of a claim call leaves every item in the
\* claimed status of the other stage unchanged.  Violated: _reclaim_stale
\* runs both statements whoever calls it.
C20_SweepOwnStageOnly ==
    [][\A w \in Workers : \A v \in Videos :
        ( /\ pc[w] \in {"claim", "reclaim2"} /\ pc'[w] \in {"reclaim2", "select"}
          /\ pc'[w] # pc[w]
          /\ items[v].status = OtherClaimed(w) )
        => items'[v] = items[v]]_vars

\* C20 (amended): each statement of the sweep changes only rows in the
\* claimed status it names: the first leaves every row that is not
\* processing unchanged, the second every row that is not summarizing.
C20_SweepStatementFrame ==
    [][\A w \in Workers : \A v \in Videos :
        /\ ( /\ pc[w] = "claim" /\ pc'[w] = "reclaim2"
             /\ items[v].status # Processing )
           => items'[v] = items[v]
        /\ ( /\ pc[w] = "reclaim2" /\ pc'[w] = "select"
             /\ items[v].status # Summarizing )
           => items'[v] = items[v]]_vars

\* C20 witness: a transcriber has just run the sweep, the row s1 has held
\* beyond the lease is transcribed again and a processing row is in place.
C20_Witness ==
    \E u, v \in Videos : \E w \in Transcribers :
        /\ pc[w] = "select"
        /\ Holds("s1", v) /\ items[v].status = Transcribed /\ ClaimCleared(items[v])
        /\ items[u].status = Processing /\ items[u].claimed_at # NullTime

C23_SameItems ==
    DOMAIN items = Videos /\ DOMAIN items = DOMAIN store0

\* C23 witness: every kind of operation has run: one row was claimed,
\* swept and claimed again, the other was committed.
C23_Witness ==
    \E u, v \in Videos :
        /\ u # v /\ {u, v} \subseteq DOMAIN items
        /\ items[u].status = Processing /\ items[u].claimed_at > STALE_HOURS
        /\ items[v].status \in {Summarized, Error}

\* C24: no statement of a sweep changes status, claimed_by or claimed_at of
\* a claimed row whose claimed_at is not before now - STALE_HOURS, whatever
\* the other workers have done between the statements.
C24_FreshClaimKept ==
    [][\A w \in Workers : \A v \in Videos :
        ( /\ pc[w] \in {"claim", "reclaim2"} /\ pc'[w] \in {"reclaim2", "select"}
          /\ pc'[w] # pc[w]
          /\ items[v].status \in ClaimedStatuses
          /\ items[v].claimed_at >= now - STALE_HOURS )
        => /\ items'[v].status = items[v].status
           /\ items'[v].claimed_by = items[v].claimed_by
           /\ items'[v].claimed_at = items[v].claimed_at]_vars

\* C24 witness: a worker has just run the first statement of its sweep and
\* a row claimed exactly STALE_HOURS ago is still another worker's claim.
C24_Witness ==
    \E w \in Workers : \E v \in Videos :
        /\ pc[w] = "reclaim2" /\ stale_time[w] = StaleTime(now)
        /\ items[v].status = Processing /\ items[v].claimed_by # w
        /\ items[v].claimed_at = now - STALE_HOURS

\* C25: outside its sweep a claim call changes at most one row, in the step
\* that returns it: that row goes from the available to the claimed status
\* of the stage and differs from its previous value in status, claimed_by
\* and claimed_at only; every other row is unchanged.
C25_ClaimFrame ==
    [][\A w \in Workers :
        pc[w] \in {"select", "update"} /\ pc'[w] # pc[w] =>
            /\ \A v \in Videos : ~Returns(w, v) => items'[v] = items[v]
            /\ \A v \in Videos : Returns(w, v) =>
                    /\ items[v].status = Available(w)
                    /\ items'[v].status = Claimed(w)
                    /\ items'[v] = [items[v] EXCEPT
                                        !.status = items'[v].status,
                                        !.claimed_by = items'[v].claimed_by,
                                        !.claimed_at = items'[v].claimed_at]]_vars

\* C25 witness: s1 holds a row it claimed, with the transcript it had, and
\* the other row is as it was created.
C25_Witness ==
    \E u, v \in Videos :
        /\ Holds("s1", v) /\ items[v].status = Summarizing
        /\ items[v].claimed_by = "s1" /\ items[v].transcript # NoText
        /\ items[u] = NewRow

\* the sum of the values of a mapping to numbers
RECURSIVE SumOf(_)
SumOf(f) ==
    IF DOMAIN f = {} THEN 0
    ELSE LET k == CHOOSE k \in DOMAIN f : TRUE
         IN f[k] + SumOf([j \in DOMAIN f \ {k} |-> f[j]])

\* C22: what get_stats returns maps exactly the statuses present in the
\* table at the read, each to the number of rows that have it: no status
\* with zero rows appears and the counts sum to the number of rows.
C22_StatsCountRows ==
    [][stats' # stats =>
        /\ DOMAIN stats' = {items[v].status : v \in Videos}
        /\ \A s \in DOMAIN stats' :
                /\ stats'[s] = Cardinality({v \in Videos : items[v].status = s})
                /\ stats'[s] > 0
        /\ SumOf(stats') = NumVideos]_vars

\* C22 witness: a read that found all rows in one claimed status, after
\* which a sweep has reset one of them.
C22_Witness ==
    \E s \in ClaimedStatuses : \E v \in Videos :
        /\ DOMAIN stats = {s} /\ stats[s] = NumVideos
        /\ items[v].status \notin ClaimedStatuses

C27_SqliteClaimExclusive ==
    \A a, b \in SqliteWorkers :
        a # b /\ pc[a] \in SqlHoldPcs /\ pc[b] \in SqlHoldPcs =>
            Range(videos[a]) \cap Range(videos[b]) = {}

\* C28: every video marked transcribing eventually leaves that status.
\* Violated: nothing resets the rows of a worker that Ctrl-C has ended.
C28_TranscribingLeaves ==
    \A v \in Videos :
        (items[v].status = Transcribing) ~> (items[v].status # Transcribing)

\* C29: after set_error of the SQLite store the row is in error and stores
\* the non-empty reason that was passed.  Violated: the UPDATE writes the
\* status only; the table has no column for the reason.
C29_SqliteErrorReason ==
    [][\A q \in SqliteWorkers :
        pc[q] = "set_error" /\ pc'[q] \notin {"set_error", "shutdown"} =>
            /\ items'[Head(videos[q])].status = Error
            /\ msg[q] # NoText
            /\ items'[Head(videos[q])].error_message = msg[q]]_vars

\* the batch run m is downloading, transcribing or writing video v
VimeoWorksOn(m, v) == pc[m] \in VimeoHoldPcs /\ Head(videos[m]) = v

\* C30: while a batch run works on a Vimeo item no worker of the claim
\* protocol holds that item and no second run works on it.  Violated: the
\* batch claims nothing: it reads the pending rows and writes them later.
C30_VimeoExclusive ==
    \A v \in Videos : \A m \in VimeoRuns :
        VimeoWorksOn(m, v) =>
            /\ \A w \in Workers : ~Holds(w, v)
            /\ \A n \in VimeoRuns \ {m} : ~VimeoWorksOn(n, v)

\* C31: update_video_transcribed of the recovery script changes an item only
\* if its status is still error at the moment of the write, and after the
\* write the item is transcribed with the new transcript, no error_message
\* and empty claim fields.  Violated: the update is keyed by video_id alone,
\* so a run that read the error rows earlier overwrites whatever the row has
\* become since, and the update never touches the claim fields.
C31_RecoverOnlyErrors ==
    [][\A r \in RecoverRuns :
        pc[r] = "write" /\ pc'[r] # "write" =>
            LET v == Head(videos[r])
            IN /\ items[v].status = Error
               /\ items'[v].status = Transcribed
               /\ items'[v].transcript = Transcript(r)
               /\ items'[v].error_message = NoText
               /\ ClaimCleared(items'[v])]_vars

\* C32: saving a video that the store already holds leaves the item's
\* status, transcript, summary, claimed_by and claimed_at unchanged.
\* Violated: the record that save_video sends carries "status": "pending" and
\* is sent as an upsert, so where the store merges it an item that is
\* processing, transcribed or summarized goes back to pending.
C32_RediscoveryKeepsState ==
    [][\A d \in Scrapers :
        pc[d] = "save" /\ videos'[d] # videos[d] =>
            LET v == Head(videos[d])
            IN /\ items'[v].status = items[v].status
               /\ items'[v].transcript = items[v].transcript
               /\ items'[v].summary = items[v].summary
               /\ items'[v].claimed_by = items[v].claimed_by
               /\ items'[v].claimed_at = items[v].claimed_at]_vars

\* C33: under the operations of LegislatureDB an item has claimed_by and
\* claimed_at set exactly when its status is processing or summarizing; in
\* every other status both claim fields are empty.
C33_ClaimFieldsIffClaimed ==
    \A v \in Videos :
        IF items[v].status \in ClaimedStatuses
        THEN items[v].claimed_by # NoWorker /\ items[v].claimed_at # NullTime
        ELSE ClaimCleared(items[v])

\* one item is claimed by the summarizer while the other one has been
\* released by set_error
C33_Witness ==
    \E u, v \in Videos :
        /\ items[u].status = Summarizing /\ items[u].claimed_by \in Summarizers
        /\ items[v].status = Error /\ ClaimCleared(items[v])

\* C34: an item has status transcribed only together with a stored non-empty
\* transcript.  Violated by processor.py: transcribe_audio returns "" when
\* Whisper wrote no file, and update_video_status then takes its last branch
\* and writes the status alone.
C34_TranscribedHasTranscript ==
    \A v \in Videos :
        items[v].status = Transcribed => items[v].transcript # NoText

Unfinished == {Pending, Processing, Transcribed, Summarizing}
Finished == {Summarized, Error, Skipped}

\* C35: with one continuous worker per stage that keeps being scheduled and
\* is restarted after a crash, every item that is pending, processing,
\* transcribed or summarizing eventually is summarized, in error or skipped.
C35_Progress ==
    \A v \in Videos :
        (items[v].status \in Unfinished) ~> (items[v].status \in Finished)

\* a worker has crashed and has been restarted, and every item is finished,
\* one of them summarized
C35_Witness ==
    /\ faults = MaxFaults
    /\ \A w \in Supervised : pc[w] # "crashed"
    /\ \A v \in Videos : items[v].status \in Finished
    /\ \E v \in Videos : items[v].status = Summarized

\* C36: when process_vimeo_batch finishes, processed equals succeeded plus
\* failed and equals the number of videos fetched for the batch.  Violated:
\* after a failed download the loop body ends with failed += 1; continue and
\* never reaches processed += 1.
C36_VimeoCountsConsistent ==
    \A m \in VimeoRuns :
        pc[m] = "done" =>
            /\ counts[m].processed = counts[m].succeeded + counts[m].failed
            /\ counts[m].processed = counts[m].claimed

\* C37: at every batch boundary and at the final report of a run of the
\* SQLite transcriber that was not interrupted, processed equals succeeded
\* plus failed and equals the number of videos that its claim_pending calls
\* returned.
C37_SqliteCountsConsistent ==
    \A q \in SqliteWorkers :
        pc[q] \in {"select", "finished"} =>
            /\ counts[q].processed = counts[q].succeeded + counts[q].failed
            /\ counts[q].processed = counts[q].claimed

\* a run has finished after it claimed a batch of two videos, one of which
\* it transcribed while the other one failed
C37_Witness ==
    \E q \in SqliteWorkers :
        /\ pc[q] = "finished"
        /\ counts[q].claimed = SqlBatch
        /\ counts[q].succeeded > 0
        /\ counts[q].failed > 0

====
